---- MODULE Spec2Model ----
(***************************************************************************)
(* Model of detectiq/core/settings/base.py: the SettingsManager that       *)
(* merges defaults, environment, the JSON settings file and the OS keyring *)
(* into one DetectIQSettings instance, and splits it again on save.        *)
(*                                                                         *)
(* Python dicts and pydantic models are TLA+ functions from key strings to *)
(* values.  None (also: an unset environment variable, a keyring entry     *)
(* that does not exist) is the value NONE.                                 *)
(***************************************************************************)
EXTENDS Integers, Sequences, FiniteSets, TLC

NONE == "<none>"

EmptyDict == [k \in {} |-> NONE]

\* Bound on the number of operations of one behaviour.
MaxSteps == 3

\* Bound on the number of operations of one behaviour in which a keyring call
\* or a file access fails.
MaxFaults == 1

\* The SettingsManager objects of the process (get_settings builds a new one
\* on every call).
Stores == {"s1", "s2"}

(***************************************************************************)
(* Python helpers                                                          *)
(***************************************************************************)

\* bool(v) of a str, SecretStr or None value.
Truthy(v) == v # NONE /\ v # ""

\* a or b
PyOr(a, b) == IF Truthy(a) THEN a ELSE b

\* d.update(f), also {**d, **f}
DictUpdate(d, f) ==
  [k \in DOMAIN d \cup DOMAIN f |-> IF k \in DOMAIN f THEN f[k] ELSE d[k]]

\* d.get(k)
DictGet(d, k) == IF k \in DOMAIN d THEN d[k] ELSE NONE

\* os.getenv(name, default)
Getenv(e, name, default) == IF e[name] = NONE THEN default ELSE e[name]

\* str(SecretStr(v)), what json.dump(default=str) writes for a SecretStr
SecretStrRepr(v) == IF v = "" THEN "" ELSE "**********"

(***************************************************************************)
(* The pydantic models                                                     *)
(***************************************************************************)

BoolFields == {"verify_ssl", "enabled"}

\* IntegrationCredentials() with every field at its default.
CredDefaults ==
  [hostname |-> "", username |-> NONE, password |-> NONE, api_key |-> NONE,
   client_id |-> NONE, client_secret |-> NONE, tenant_id |-> NONE,
   cloud_id |-> NONE, app |-> NONE, owner |-> NONE,
   verify_ssl |-> TRUE, enabled |-> FALSE]

\* Does IntegrationCredentials(**cfg) validate?  hostname is a str: None is
\* rejected.  Every other non-bool field is Optional, extra keys are allowed.
CredValid(cfg) == ("hostname" \in DOMAIN cfg) => cfg["hostname"] # NONE

\* IntegrationCredentials(**cfg) (and its three subclasses, which add no
\* field): the given fields, defaults for the others.
CredModel(cfg) == DictUpdate(CredDefaults, cfg)

IntegrationNames == {"elastic", "splunk", "microsoft_xdr"}

\* Integrations(**data): a default-constructed record for every integration
\* that data does not name.
IntegrationsValid(data) ==
  \A n \in DOMAIN data \cap IntegrationNames : CredValid(data[n])

IntegrationsModel(data) ==
  [n \in IntegrationNames |->
     IF n \in DOMAIN data THEN CredModel(data[n]) ELSE CredDefaults]

DirKeys == {"sigma", "yara", "snort"}

\* The default_factory values of DetectIQSettings (DEFAULT_DIRS.*).
ClassRuleDirs == [k \in DirKeys |-> "DEFAULT_DIRS/rules/" \o k]
ClassVectorDirs == [k \in DirKeys |-> "DEFAULT_DIRS/vector_stores/" \o k]

StrFields == {"openai_api_key", "log_level", "model"}

\* DetectIQSettings() with every field at its default.
ClassDefaults ==
  [openai_api_key |-> "", rule_directories |-> ClassRuleDirs,
   vector_store_directories |-> ClassVectorDirs, log_level |-> "INFO",
   model |-> "gpt-4o", integrations |-> IntegrationsModel(EmptyDict)]

\* Does DetectIQSettings(**d) validate?
SettingsValid(d) ==
  /\ \A k \in StrFields \cap DOMAIN d : d[k] # NONE
  /\ ("integrations" \in DOMAIN d) => IntegrationsValid(d["integrations"])

\* DetectIQSettings(**d)
SettingsModel(d) ==
  [k \in DOMAIN ClassDefaults \cup DOMAIN d |->
     IF k \notin DOMAIN d THEN ClassDefaults[k]
     ELSE IF k = "integrations" THEN IntegrationsModel(d[k])
     ELSE d[k]]

\* dict() that keeps the None fields whatever exclude_none says.
CredDict_KeepsNone(c, excludeNone) == c

\* model.dict(exclude_none=...) of one credentials record
CredDict(c, excludeNone) ==
  [k \in {f \in DOMAIN c : ~(excludeNone /\ f \notin BoolFields /\ c[f] = NONE)}
     |-> c[k]]

\* self.settings.dict(exclude_none=...)
SettingsDict(s, excludeNone) ==
  [k \in DOMAIN s |->
     IF k = "integrations"
     THEN [n \in DOMAIN s[k] |-> CredDict(s[k][n], excludeNone)]
     ELSE s[k]]

(***************************************************************************)
(* SettingsManager                                                         *)
(***************************************************************************)

\* "global" is the pseudo-integration of the root object.
SENSITIVE_FIELDS ==
  [splunk |-> <<"password">>, elastic |-> <<"api_key">>,
   microsoft_xdr |-> <<"client_secret">>, global |-> <<"openai_api_key">>]

\* The keyring entry of an integration's field: f"{integration_name}_{field}"
KeyName(integration, field) == integration \o "_" \o field

\* Every keyring entry name the manager uses under APP_NAME.
KeyNames ==
  {"openai_api_key"} \cup
  {KeyName(n, SENSITIVE_FIELDS[n][1]) : n \in IntegrationNames}

\* PROJECT_ROOT / "rules" / k and PROJECT_ROOT / "vector_stores" / k
ProjectRuleDirs == [k \in DirKeys |-> "rules/" \o k]
ProjectVectorDirs == [k \in DirKeys |-> "vector_stores/" \o k]

EnvNames == {"OPENAI_API_KEY", "DETECTIQ_LOG_LEVEL", "DETECTIQ_MODEL"}

\* The first settings_dict of _load_settings: keyring, environment, defaults.
BaseDict(kr, e) ==
  [openai_api_key |->
     PyOr(kr["openai_api_key"], Getenv(e, "OPENAI_API_KEY", "")),
   rule_directories |-> ProjectRuleDirs,
   vector_store_directories |-> ProjectVectorDirs,
   log_level |-> Getenv(e, "DETECTIQ_LOG_LEVEL", "INFO"),
   model |-> Getenv(e, "DETECTIQ_MODEL", "gpt-4"),
   integrations |-> [n \in IntegrationNames |-> CredDict(CredDefaults, FALSE)]]

\* The order of settings_dict["integrations"].items() in _load_settings: the
\* literal's order when the file has no integrations key, else the order of
\* the file, which save_settings writes in the Integrations field order.
LoadOrder(fileData) ==
  IF "integrations" \in DOMAIN fileData
  THEN <<"elastic", "splunk", "microsoft_xdr">>
  ELSE <<"splunk", "elastic", "microsoft_xdr">>

\* The fault of a keyring call on an entry, of reading or writing the file.
GetFault(key) == "get:" \o key
SetFault(key) == "set:" \o key

\* The keyring loop of _load_settings over order[i..]: integs with every
\* stored, non-empty secret written over the field; stops at the lookup that
\* raises.  Result: [integs, raised].
RECURSIVE LoadSecrets(_, _, _, _, _)
LoadSecrets(integs, order, i, kr, fault) ==
  IF i > Len(order) THEN [integs |-> integs, raised |-> FALSE]
  ELSE LET n == order[i]
           field == SENSITIVE_FIELDS[n][1]
           key == KeyName(n, field)
       IN IF n \notin DOMAIN integs
          THEN LoadSecrets(integs, order, i + 1, kr, fault)
          ELSE IF fault = GetFault(key)
          THEN [integs |-> integs, raised |-> TRUE]
          ELSE IF Truthy(kr[key])
          THEN LoadSecrets(
                 [integs EXCEPT ![n] = DictUpdate(@, [f \in {field} |-> kr[key]])],
                 order, i + 1, kr, fault)
          ELSE LoadSecrets(integs, order, i + 1, kr, fault)

\* LoadFile that falls back to an empty dict, not to settings_dict as it was,
\* when the file cannot be read.
LoadFile_DropsBase(base, f, kr, fault) ==
  IF f.state = "corrupt" \/ fault = "read"
  THEN [dict |-> EmptyDict, caught |-> TRUE]
  ELSE LET merged == DictUpdate(base, f.data)
           loaded == LoadSecrets(merged["integrations"], LoadOrder(f.data),
                                 1, kr, fault)
       IN [dict |-> [merged EXCEPT !["integrations"] = loaded.integs],
           caught |-> loaded.raised]

\* The try block of _load_settings on a file that exists: the dict after it,
\* and whether an exception was caught.
LoadFile(base, f, kr, fault) ==
  IF f.state = "corrupt" \/ fault = "read"
  THEN [dict |-> base, caught |-> TRUE]
  ELSE LET merged == DictUpdate(base, f.data)
           loaded == LoadSecrets(merged["integrations"], LoadOrder(f.data),
                                 1, kr, fault)
       IN [dict |-> [merged EXCEPT !["integrations"] = loaded.integs],
           caught |-> loaded.raised]

\* _load_settings: [raised, fired, settings].  raised: the call raises
\* (the keyring lookup of openai_api_key, or validation); fired: the fault
\* that happened, NONE if none.
LoadSettings(f, kr, e, fault) ==
  IF fault = GetFault("openai_api_key")
  THEN [raised |-> TRUE, fired |-> fault, settings |-> ClassDefaults]
  ELSE LET base == BaseDict(kr, e)
           r == IF f.state # "absent" THEN LoadFile(base, f, kr, fault)
                ELSE [dict |-> base, caught |-> FALSE]
           fired == IF r.caught /\ f.state # "corrupt" THEN fault ELSE NONE
       IN IF SettingsValid(r.dict)
          THEN [raised |-> FALSE, fired |-> fired,
                settings |-> SettingsModel(r.dict)]
          ELSE [raised |-> TRUE, fired |-> fired, settings |-> ClassDefaults]

\* The order of settings_dict["integrations"].items() in save_settings: the
\* field order of the Integrations model.
SaveOrder == <<"elastic", "splunk", "microsoft_xdr">>

\* SaveSecrets that stores every sensitive field that is there, empty or not.
RECURSIVE SaveSecrets_StoresEmpty(_, _, _, _)
SaveSecrets_StoresEmpty(integs, i, kr, fault) ==
  IF i > Len(SaveOrder) THEN [integs |-> integs, kr |-> kr, raised |-> FALSE]
  ELSE LET n == SaveOrder[i]
           field == SENSITIVE_FIELDS[n][1]
           key == KeyName(n, field)
           value == DictGet(integs[n], field)
       IN IF value = NONE
          THEN SaveSecrets_StoresEmpty(integs, i + 1, kr, fault)
          ELSE IF fault = SetFault(key)
          THEN [integs |-> integs, kr |-> kr, raised |-> TRUE]
          ELSE SaveSecrets_StoresEmpty([integs EXCEPT ![n][field] = ""], i + 1,
                                       [kr EXCEPT ![key] = value], fault)

\* SaveSecrets that stores the secrets but leaves them in the file-bound dict.
RECURSIVE SaveSecrets_NoRedaction(_, _, _, _)
SaveSecrets_NoRedaction(integs, i, kr, fault) ==
  IF i > Len(SaveOrder) THEN [integs |-> integs, kr |-> kr, raised |-> FALSE]
  ELSE LET n == SaveOrder[i]
           field == SENSITIVE_FIELDS[n][1]
           key == KeyName(n, field)
           value == DictGet(integs[n], field)
       IN IF ~Truthy(value)
          THEN SaveSecrets_NoRedaction(integs, i + 1, kr, fault)
          ELSE IF fault = SetFault(key)
          THEN [integs |-> integs, kr |-> kr, raised |-> TRUE]
          ELSE SaveSecrets_NoRedaction(integs, i + 1,
                                       [kr EXCEPT ![key] = value], fault)

\* The integrations loop of save_settings over SaveOrder[i..]: every
\* non-empty sensitive field is stored in the keyring and emptied in the
\* file-bound dict; stops at the keyring write that raises.
\* Result: [integs, kr, raised].
RECURSIVE SaveSecrets(_, _, _, _)
SaveSecrets(integs, i, kr, fault) ==
  IF i > Len(SaveOrder) THEN [integs |-> integs, kr |-> kr, raised |-> FALSE]
  ELSE LET n == SaveOrder[i]
           field == SENSITIVE_FIELDS[n][1]
           key == KeyName(n, field)
           value == DictGet(integs[n], field)
       IN IF ~Truthy(value)
          THEN SaveSecrets(integs, i + 1, kr, fault)
          ELSE IF fault = SetFault(key)
          THEN [integs |-> integs, kr |-> kr, raised |-> TRUE]
          ELSE SaveSecrets([integs EXCEPT ![n][field] = ""], i + 1,
                           [kr EXCEPT ![key] = value], fault)

\* json.dump(file_settings, f, default=str): the one value that is no JSON
\* type is the SecretStr of splunk.password.
JsonDump(fs) ==
  [fs EXCEPT !["integrations"] =
     [n \in DOMAIN @ |->
        [k \in DOMAIN @[n] |->
           IF n = "splunk" /\ k = "password" THEN SecretStrRepr(@[n][k])
           ELSE @[n][k]]]]

\* The settings file: state is "absent", "corrupt" (no JSON document: not
\* parseable, truncated or partially written) or "json" with its document.
NoFile == [state |-> "absent", data |-> EmptyDict]
CorruptFile == [state |-> "corrupt", data |-> EmptyDict]
JsonFile(d) == [state |-> "json", data |-> d]

\* save_settings of settings s: [file, keyring, raised, fired].
\* open(SETTINGS_FILE, "w") truncates the file before json.dump writes it.
SaveSettings(s, f, kr, fault) ==
  LET d == SettingsDict(s, TRUE)
      hasKey == Truthy(DictGet(d, "openai_api_key"))
  IN IF hasKey /\ fault = SetFault("openai_api_key")
     THEN [file |-> f, keyring |-> kr, raised |-> TRUE, fired |-> fault]
     ELSE
       LET kr1 == IF hasKey
                  THEN [kr EXCEPT !["openai_api_key"] = d["openai_api_key"]]
                  ELSE kr
           fs1 == IF hasKey THEN [d EXCEPT !["openai_api_key"] = ""] ELSE d
           r == SaveSecrets(fs1["integrations"], 1, kr1, fault)
           fs2 == [fs1 EXCEPT !["integrations"] = r.integs]
       IN IF r.raised
          THEN [file |-> f, keyring |-> r.kr, raised |-> TRUE, fired |-> fault]
          ELSE IF fault = "open"
          THEN [file |-> f, keyring |-> r.kr, raised |-> TRUE, fired |-> fault]
          ELSE IF fault = "dump"
          THEN [file |-> CorruptFile, keyring |-> r.kr, raised |-> TRUE,
                fired |-> fault]
          ELSE [file |-> JsonFile(JsonDump(fs2)), keyring |-> r.kr,
                raised |-> FALSE, fired |-> NONE]

\* The kwargs loop of update_settings: does every credentials model build?
KwargsValid(kwargs) ==
  ("integrations" \in DOMAIN kwargs) => IntegrationsValid(kwargs["integrations"])

\* ApplyKwargs that lays the fields given for an integration over the
\* record the integration had.
ApplyKwargs_MergesRecords(d, kwargs) ==
  [k \in DOMAIN d \cup DOMAIN kwargs |->
     IF k \notin DOMAIN kwargs THEN d[k]
     ELSE IF k = "integrations"
     THEN IntegrationsModel(
            [n \in DOMAIN kwargs[k] |->
               IF n \in DOMAIN d[k] THEN DictUpdate(d[k][n], kwargs[k][n])
               ELSE kwargs[k][n]])
     ELSE kwargs[k]]

\* ApplyKwargs that builds a new Integrations on every call, also when
\* kwargs has no integrations key.
ApplyKwargs_RebuildsIntegrations(d, kwargs) ==
  [k \in DOMAIN d \cup DOMAIN kwargs |->
     IF k = "integrations"
     THEN IntegrationsModel(IF k \in DOMAIN kwargs THEN kwargs[k]
                            ELSE EmptyDict)
     ELSE IF k \notin DOMAIN kwargs THEN d[k]
     ELSE kwargs[k]]

\* The kwargs loop of update_settings: settings_dict after it.
ApplyKwargs(d, kwargs) ==
  [k \in DOMAIN d \cup DOMAIN kwargs |->
     IF k \notin DOMAIN kwargs THEN d[k]
     ELSE IF k = "integrations" THEN IntegrationsModel(kwargs[k])
     ELSE kwargs[k]]

\* update_settings up to the assignment of self.settings: [valid, settings].
UpdatedSettings(s, kwargs) ==
  LET d == ApplyKwargs(SettingsDict(s, FALSE), kwargs)
  IN IF KwargsValid(kwargs) /\ SettingsValid(d)
     THEN [valid |-> TRUE, settings |-> SettingsModel(d)]
     ELSE [valid |-> FALSE, settings |-> s]

(***************************************************************************)
(* Inputs                                                                  *)
(***************************************************************************)

\* A settings file written by hand: three of the top-level keys (the rule
\* directories with one of their keys), two of the integrations, one secret
\* in plain text, one empty.
HandFile ==
  [log_level |-> "DEBUG",
   rule_directories |-> [sigma |-> "/srv/sigma"],
   integrations |->
     [elastic |-> [hostname |-> "es.local", api_key |-> "file-ek",
                   enabled |-> TRUE],
      splunk |-> [hostname |-> "splunk.old", password |-> ""]]]

\* A settings file that is JSON but not of the settings shape
\* ("log_level": null).
BadFile == [log_level |-> NONE]

InitFiles == {NoFile, CorruptFile, JsonFile(HandFile), JsonFile(BadFile)}

NoSecrets == [k \in KeyNames |-> NONE]

InitKeyrings ==
  {NoSecrets,
   [NoSecrets EXCEPT !["openai_api_key"] = "sk-stored",
                     !["elastic_api_key"] = "kr-ek",
                     !["splunk_password"] = "kr-pw"]}

NoEnv == [n \in EnvNames |-> NONE]

InitEnvs ==
  {NoEnv,
   [OPENAI_API_KEY |-> "sk-env", DETECTIQ_LOG_LEVEL |-> "WARNING",
    DETECTIQ_MODEL |-> "gpt-3.5"]}

\* The keyword arguments of update_settings.
Kwargs ==
  {[model |-> "gpt-x"],
   [openai_api_key |-> "sk-new"],
   [integrations |->
      [splunk |-> [hostname |-> "splunk.local", password |-> "pw1",
                   enabled |-> TRUE]]],
   [integrations |-> [elastic |-> [hostname |-> "es2", api_key |-> "ek2"]]],
   [log_level |-> NONE],
   [integrations |-> [splunk |-> [hostname |-> NONE]]]}

\* What can go wrong in one operation: nothing, a keyring call raising, the
\* file not readable, open(..., "w") raising, json.dump raising part-way.
GetFaults == {GetFault("openai_api_key"), GetFault("splunk_password")}
SetFaults == {SetFault("openai_api_key"), SetFault("splunk_password")}
Faults == {NONE, "read", "open", "dump"} \cup GetFaults \cup SetFaults

(***************************************************************************)
(* State                                                                   *)
(***************************************************************************)

VARIABLES
  file,      \* SETTINGS_FILE on disk
  keyring,   \* the keyring entries under APP_NAME
  env,       \* the environment after load_dotenv()
  settings,  \* self.settings of every SettingsManager, EmptyDict before
             \* its __init__ sets it
  built,     \* the SettingsManagers whose __init__ has returned
  last,      \* the operation that ran last and how it ended
  steps,     \* the number of operations so far
  faults,    \* the number of operations so far in which a fault happened
  threads    \* the update_settings calls running on threads of the process:
             \* where each is, its kwargs and its local variables

vars == <<file, keyring, env, settings, built, last, steps, faults, threads>>

\* The threads that call update_settings at the same time.
Threads == {"t1", "t2"}

\* A thread that has not called anything.
Idle == [pc |-> "idle", kwargs |-> EmptyDict, settings_dict |-> EmptyDict,
         file_settings |-> EmptyDict]

\* The record of an operation: op on store m with kwargs ended with status
\* "ok", "invalid" (validation raised) or "raised" (the fault fired raised
\* out of it); fired is the fault that happened, NONE if none; saved: its
\* save_settings ran to the end.
Done(op, m, kwargs, status, fired, saved) ==
  /\ last' = [op |-> op, store |-> m, kwargs |-> kwargs, status |-> status,
              fired |-> fired, saved |-> saved]
  /\ steps' = steps + 1
  /\ faults' = IF fired = NONE THEN faults ELSE faults + 1
  /\ UNCHANGED threads

\* May the next operation be given this fault?
Allowed(fault) == steps < MaxSteps /\ (fault = NONE \/ faults < MaxFaults)

Init ==
  /\ file \in InitFiles
  /\ keyring \in InitKeyrings
  /\ env \in InitEnvs
  /\ settings = [m \in Stores |-> EmptyDict]
  /\ built = {}
  /\ last = [op |-> "none", store |-> "s1", kwargs |-> EmptyDict,
             status |-> "ok", fired |-> NONE, saved |-> FALSE]
  /\ steps = 0
  /\ faults = 0
  /\ threads = [t \in Threads |-> Idle]

\* __init__ that loads on a first run and does not save.
Construct_LoadOnly(m, fault) ==
  /\ Allowed(fault)
  /\ m \notin built
  /\ env' = env
  /\ LET L == LoadSettings(file, keyring, env, fault)
     IN IF L.raised
        THEN /\ UNCHANGED <<file, keyring, settings, built>>
             /\ Done("construct", m, EmptyDict,
                     IF L.fired = NONE THEN "invalid" ELSE "raised",
                     L.fired, FALSE)
        ELSE /\ UNCHANGED <<file, keyring>>
             /\ settings' = [settings EXCEPT ![m] = L.settings]
             /\ built' = built \cup {m}
             /\ Done("construct", m, EmptyDict, "ok", L.fired, FALSE)

\* SettingsManager(): __init__
Construct(m, fault) ==
  /\ Allowed(fault)
  /\ m \notin built
  /\ env' = env
  /\ LET L == LoadSettings(file, keyring, env, fault)
         S == SaveSettings(L.settings, file, keyring, fault)
     IN IF L.raised
        THEN /\ UNCHANGED <<file, keyring, settings, built>>
             /\ Done("construct", m, EmptyDict,
                     IF L.fired = NONE THEN "invalid" ELSE "raised",
                     L.fired, FALSE)
        ELSE IF file.state # "absent"
        THEN /\ UNCHANGED <<file, keyring>>
             /\ settings' = [settings EXCEPT ![m] = L.settings]
             /\ built' = built \cup {m}
             /\ Done("construct", m, EmptyDict, "ok", L.fired, FALSE)
        ELSE /\ file' = S.file
             /\ keyring' = S.keyring
             /\ settings' = IF S.raised THEN settings
                            ELSE [settings EXCEPT ![m] = L.settings]
             /\ built' = IF S.raised THEN built ELSE built \cup {m}
             /\ Done("construct", m, EmptyDict,
                     IF S.raised THEN "raised" ELSE "ok", S.fired, ~S.raised)

\* save_settings that redacts self.settings itself, not a copy.
Save_RedactsMemory(m, fault) ==
  /\ Allowed(fault)
  /\ m \in built
  /\ LET S == SaveSettings(settings[m], file, keyring, fault)
     IN /\ file' = S.file
        /\ keyring' = S.keyring
        /\ settings' = IF S.raised THEN settings
                       ELSE [settings EXCEPT ![m] = SettingsModel(S.file.data)]
        /\ Done("save", m, EmptyDict, IF S.raised THEN "raised" ELSE "ok",
                S.fired, ~S.raised)
  /\ UNCHANGED <<env, built>>

\* save_settings()
Save(m, fault) ==
  /\ Allowed(fault)
  /\ m \in built
  /\ LET S == SaveSettings(settings[m], file, keyring, fault)
     IN /\ file' = S.file
        /\ keyring' = S.keyring
        /\ Done("save", m, EmptyDict, IF S.raised THEN "raised" ELSE "ok",
                S.fired, ~S.raised)
  /\ UNCHANGED <<env, settings, built>>

\* update_settings that writes kwargs into self.settings before it validates.
Update_InPlace(m, kwargs, fault) ==
  /\ Allowed(fault)
  /\ m \in built
  /\ UNCHANGED <<env, built>>
  /\ LET U == UpdatedSettings(settings[m], kwargs)
         S == SaveSettings(U.settings, file, keyring, fault)
     IN IF ~U.valid
        THEN /\ UNCHANGED <<file, keyring>>
             /\ settings' = [settings EXCEPT ![m] =
                               ApplyKwargs(SettingsDict(@, FALSE), kwargs)]
             /\ Done("update", m, kwargs, "invalid", NONE, FALSE)
        ELSE /\ settings' = [settings EXCEPT ![m] = U.settings]
             /\ file' = S.file
             /\ keyring' = S.keyring
             /\ Done("update", m, kwargs, IF S.raised THEN "raised" ELSE "ok",
                     S.fired, ~S.raised)

\* update_settings(**kwargs)
Update(m, kwargs, fault) ==
  /\ Allowed(fault)
  /\ m \in built
  /\ UNCHANGED <<env, built>>
  /\ LET U == UpdatedSettings(settings[m], kwargs)
         S == SaveSettings(U.settings, file, keyring, fault)
     IN IF ~U.valid
        THEN /\ UNCHANGED <<file, keyring, settings>>
             /\ Done("update", m, kwargs, "invalid", NONE, FALSE)
        ELSE /\ settings' = [settings EXCEPT ![m] = U.settings]
             /\ file' = S.file
             /\ keyring' = S.keyring
             /\ Done("update", m, kwargs, IF S.raised THEN "raised" ELSE "ok",
                     S.fired, ~S.raised)

Next ==
  \/ \E m \in Stores, fault \in Faults : Construct(m, fault)
  \/ \E m \in Stores, fault \in Faults : Save(m, fault)
  \/ \E m \in Stores, kwargs \in Kwargs, fault \in Faults :
       Update(m, kwargs, fault)

Spec == Init /\ [][Next]_vars

(***************************************************************************)
(* Construction alone, from every combination of file, keyring and         *)
(* environment: each environment variable unset, set to the empty string,  *)
(* or set to a value.                                                      *)
(***************************************************************************)

EnvValue ==
  [OPENAI_API_KEY |-> "sk-env", DETECTIQ_LOG_LEVEL |-> "WARNING",
   DETECTIQ_MODEL |-> "gpt-3.5"]

LoadEnvs ==
  {e \in [EnvNames -> {NONE, ""} \cup {EnvValue[n] : n \in EnvNames}] :
     \A n \in EnvNames : e[n] \in {NONE, "", EnvValue[n]}}

LoadKeyrings ==
  InitKeyrings \cup
  {[NoSecrets EXCEPT !["openai_api_key"] = "sk-stored"],
   [NoSecrets EXCEPT !["splunk_password"] = "kr-pw"]}

InitLoad ==
  /\ file \in InitFiles
  /\ keyring \in LoadKeyrings
  /\ env \in LoadEnvs
  /\ settings = [m \in Stores |-> EmptyDict]
  /\ built = {}
  /\ last = [op |-> "none", store |-> "s1", kwargs |-> EmptyDict,
             status |-> "ok", fired |-> NONE, saved |-> FALSE]
  /\ steps = 0
  /\ faults = 0
  /\ threads = [t \in Threads |-> Idle]

NextLoad == \E m \in Stores, fault \in Faults : Construct(m, fault)

SpecLoad == InitLoad /\ [][NextLoad]_vars

(***************************************************************************)
(* Two update_settings calls on one SettingsManager, on two threads.  No   *)
(* statement of update_settings or save_settings takes a lock, so a thread *)
(* can be preempted between any two of them; the steps below are the       *)
(* places where a call reads or writes what the other call shares.         *)
(***************************************************************************)

\* The kwargs of the concurrent calls: the ones of Kwargs that validate.
ConcKwargs == {k \in Kwargs : KwargsValid(k)}

\* The calls of the two threads change different top-level keys.
ConcCalls ==
  {c \in [Threads -> ConcKwargs] :
     \A t, u \in Threads : t # u => DOMAIN c[t] \cap DOMAIN c[u] = {}}

\* One SettingsManager has been constructed without a fault, and each thread
\* is about to call update_settings on it.
InitConc ==
  \E f \in InitFiles, kr \in InitKeyrings, c \in ConcCalls :
    LET L == LoadSettings(f, kr, NoEnv, NONE)
        S == SaveSettings(L.settings, f, kr, NONE)
    IN /\ ~L.raised
       /\ env = NoEnv
       /\ file = IF f.state = "absent" THEN S.file ELSE f
       /\ keyring = IF f.state = "absent" THEN S.keyring ELSE kr
       /\ settings = [m \in Stores |->
                        IF m = "s1" THEN L.settings ELSE EmptyDict]
       /\ built = {"s1"}
       /\ last = [op |-> "construct", store |-> "s1", kwargs |-> EmptyDict,
                  status |-> "ok", fired |-> NONE,
                  saved |-> (f.state = "absent")]
       /\ steps = 1
       /\ faults = 0
       /\ threads = [t \in Threads |-> [Idle EXCEPT !.kwargs = c[t]]]

\* The thread moves to pc and its local variables become as given.
Goto(t, pc, settings_dict, file_settings) ==
  threads' = [threads EXCEPT ![t] =
                [pc |-> pc, kwargs |-> @.kwargs,
                 settings_dict |-> settings_dict,
                 file_settings |-> file_settings]]

\* update_settings: settings_dict = self.settings.dict(), then the loop over
\* kwargs on the local dict.
ReadSettings(t) ==
  /\ threads[t].pc = "idle"
  /\ Goto(t, "read",
          ApplyKwargs(SettingsDict(settings["s1"], FALSE), threads[t].kwargs),
          EmptyDict)
  /\ UNCHANGED <<file, keyring, env, settings, built, last, steps, faults>>

\* update_settings: self.settings = DetectIQSettings(**settings_dict)
AssignSettings(t) ==
  /\ threads[t].pc = "read"
  /\ settings' = [settings EXCEPT
                    !["s1"] = SettingsModel(threads[t].settings_dict)]
  /\ Goto(t, "assigned", threads[t].settings_dict, EmptyDict)
  /\ UNCHANGED <<file, keyring, env, built, last, steps, faults>>

\* save_settings up to the open: self.settings.dict(exclude_none=True) of
\* whatever self.settings is now, the secrets to the keyring, file_settings.
PrepareSave(t) ==
  /\ threads[t].pc = "assigned"
  /\ LET S == SaveSettings(settings["s1"], file, keyring, NONE)
     IN /\ keyring' = S.keyring
        /\ Goto(t, "prepared", threads[t].settings_dict, S.file.data)
  /\ UNCHANGED <<file, env, settings, built, last, steps, faults>>

\* save_settings: open(self.SETTINGS_FILE, "w") truncates the file.
OpenFile(t) ==
  /\ threads[t].pc = "prepared"
  /\ file' = CorruptFile
  /\ Goto(t, "opened", threads[t].settings_dict, threads[t].file_settings)
  /\ UNCHANGED <<keyring, env, settings, built, last, steps, faults>>

\* save_settings: json.dump and the close of the file write the document at
\* the start of the file.  Into a file that is still empty that leaves the
\* document; into a file another writer has written since this one's open it
\* leaves the document, followed by the rest of the other one if that one
\* was longer.
DumpFile(t) ==
  /\ threads[t].pc = "opened"
  /\ \/ file' = JsonFile(threads[t].file_settings)
     \/ /\ file.state = "json"
        /\ file.data # threads[t].file_settings
        /\ file' = CorruptFile
  /\ Goto(t, "done", threads[t].settings_dict, threads[t].file_settings)
  /\ UNCHANGED <<keyring, env, settings, built, last, steps, faults>>

NextConc ==
  \/ \E t \in Threads : ReadSettings(t)
  \/ \E t \in Threads : AssignSettings(t)
  \/ \E t \in Threads : PrepareSave(t)
  \/ \E t \in Threads : OpenFile(t)
  \/ \E t \in Threads : DumpFile(t)

SpecConc == InitConc /\ [][NextConc]_vars

(***************************************************************************)
(* Properties                                                              *)
(***************************************************************************)

\* The entries of SENSITIVE_FIELDS as <<integration or "global", field>>.
SensitiveEntries ==
  {<<n, SENSITIVE_FIELDS[n][1]>> : n \in DOMAIN SENSITIVE_FIELDS}

\* The value of a sensitive entry in a settings instance.
MemValue(s, e) ==
  IF e[1] = "global" THEN s[e[2]] ELSE s["integrations"][e[1]][e[2]]

\* The value of a sensitive entry in a JSON document, NONE if the document
\* has no such field.
DocValue(d, e) ==
  IF e[1] = "global" THEN DictGet(d, e[2])
  ELSE IF "integrations" \in DOMAIN d /\ e[1] \in DOMAIN d["integrations"]
  THEN DictGet(d["integrations"][e[1]], e[2])
  ELSE NONE

\* The settings of the store of the last operation.
Cur == settings[last.store]

\* C1 (as claimed): after every save_settings that completes, every
\* SENSITIVE_FIELDS entry of the settings file is the empty string.
C1_Original ==
  last.saved =>
    /\ file.state = "json"
    /\ \A e \in SensitiveEntries : DocValue(file.data, e) = ""

\* C1 (amended): after every save_settings that completes, every
\* SENSITIVE_FIELDS entry of the settings file is the empty string, or is
\* absent from the file when the saved settings hold None for it; the file
\* never holds a non-empty value for it.
C1_Redaction ==
  last.saved =>
    /\ file.state = "json"
    /\ \A e \in SensitiveEntries :
         DocValue(file.data, e) = IF MemValue(Cur, e) = NONE THEN NONE ELSE ""

\* A completed save of settings with a non-empty global secret, a non-empty
\* integration secret and a None integration secret.
C1_Witness ==
  /\ last.saved
  /\ Truthy(Cur["openai_api_key"])
  /\ \E e \in SensitiveEntries : e[1] # "global" /\ Truthy(MemValue(Cur, e))
  /\ \E e \in SensitiveEntries : MemValue(Cur, e) = NONE

\* The last operation, about to end, was a load in which no call failed.
Loaded == last'.op = "construct" /\ last'.status = "ok" /\ last'.fired = NONE

\* C2: a load yields the stored secret K as openai_api_key when the keyring
\* holds one, and the value of OPENAI_API_KEY when it holds none and the
\* variable is set, whether or not a settings file exists.
C2_Precedence ==
  [][Loaded =>
       /\ Truthy(keyring["openai_api_key"]) =>
            settings'[last'.store]["openai_api_key"]
              = keyring["openai_api_key"]
       /\ (~Truthy(keyring["openai_api_key"]) /\ Truthy(env["OPENAI_API_KEY"]))
            => settings'[last'.store]["openai_api_key"]
                 = env["OPENAI_API_KEY"]]_vars

\* C3: a load performed after a completed save of settings S returns S: every
\* non-sensitive field, and every sensitive field (from the keyring).
C3_RoundTrip ==
  last.saved =>
    LET L == LoadSettings(file, keyring, env, NONE)
    IN ~L.raised /\ L.settings = Cur

\* The record save_settings writes to the file for a credentials record c of
\* integration n.
FileRecord(n, c) ==
  LET d == CredDict(c, TRUE)
      field == SENSITIVE_FIELDS[n][1]
  IN [k \in DOMAIN d |-> IF k = field /\ Truthy(d[k]) THEN "" ELSE d[k]]

\* C4: an update whose integrations key names only some integrations leaves
\* the record of every other integration as it was, in memory and in the file.
C4_OthersRetained ==
  [][(last'.op = "update" /\ last'.status = "ok"
        /\ "integrations" \in DOMAIN last'.kwargs) =>
       \A n \in IntegrationNames \ DOMAIN last'.kwargs["integrations"] :
         LET before == settings[last'.store]["integrations"][n]
         IN /\ settings'[last'.store]["integrations"][n] = before
            /\ file'.data["integrations"][n] = FileRecord(n, before)]_vars

\* C5: an update with non-integration keys sets the given top-level fields of
\* the in-memory settings and leaves every other one as it was.
C5_OnlyThatKey ==
  [][(last'.op = "update" /\ last'.status \in {"ok", "raised"}
        /\ "integrations" \notin DOMAIN last'.kwargs) =>
       LET before == settings[last'.store]
           after == settings'[last'.store]
       IN /\ DOMAIN after = DOMAIN before \cup DOMAIN last'.kwargs
          /\ \A k \in DOMAIN after :
               after[k] = IF k \in DOMAIN last'.kwargs THEN last'.kwargs[k]
                          ELSE before[k]]_vars

\* An update of model alone on settings that hold a key, a non-default
\* log level and an integration with a secret.
C5_Witness ==
  /\ last.op = "update" /\ last.status = "ok"
  /\ last.kwargs = [model |-> "gpt-x"]
  /\ Cur["model"] = "gpt-x"
  /\ Truthy(Cur["openai_api_key"])
  /\ Cur["log_level"] # "INFO"
  /\ \E e \in SensitiveEntries : e[1] # "global" /\ Truthy(MemValue(Cur, e))

\* C6: when the settings file exists but cannot be read or parsed, load ends
\* as it does without a file on the same keyring and environment, and does
\* not raise (the keyring lookup of openai_api_key returning).
C6_CorruptAsAbsent ==
  [][(last'.op = "construct" /\ (file.state = "corrupt" \/ last'.fired = "read"))
       => LET keyFault == IF last'.fired \in GetFaults THEN last'.fired ELSE NONE
              asAbsent == LoadSettings(NoFile, keyring, env, keyFault)
          IN /\ (last'.status # "ok") = asAbsent.raised
             /\ last'.status = "ok" =>
                  settings'[last'.store] = asAbsent.settings
             /\ keyFault = NONE => last'.status = "ok"
             /\ file' = file]_vars

\* A store built from a corrupt file, with a secret and the environment at
\* work.
C6_Witness ==
  /\ last.op = "construct" /\ last.status = "ok"
  /\ file.state = "corrupt"
  /\ Cur["openai_api_key"] = "sk-stored"
  /\ Cur["log_level"] = "WARNING"

\* A store built from a file that is there but could not be read.
C6_WitnessUnreadable ==
  /\ last.op = "construct" /\ last.status = "ok" /\ last.fired = "read"
  /\ file.state = "json"

\* C7: an update that fails validation leaves the in-memory settings, the
\* settings file and the keyring as they were.
C7_RejectedUpdate ==
  [][(last'.op = "update" /\ last'.status = "invalid") =>
       /\ settings' = settings
       /\ file' = file
       /\ keyring' = keyring]_vars

\* A rejected update of an integration record on a store that holds
\* secrets, the file being there.
C7_Witness ==
  /\ last.op = "update" /\ last.status = "invalid"
  /\ "integrations" \in DOMAIN last.kwargs
  /\ file.state = "json"
  /\ Truthy(Cur["openai_api_key"])

\* C8: when a keyring lookup raises, load does not fail and returns what it
\* returns when that entry is not stored.
C8_LookupRaises ==
  [][(last'.op = "construct" /\ last'.fired \in GetFaults) =>
       LET key == CHOOSE k \in KeyNames : GetFault(k) = last'.fired
           notFound == LoadSettings(file, [keyring EXCEPT ![key] = NONE],
                                    env, NONE)
       IN /\ last'.status = "ok"
          /\ settings'[last'.store] = notFound.settings]_vars

\* The non-sensitive content of the file is that of settings s.
NonSensitiveWritten(f, s) ==
  /\ f.state = "json"
  /\ \A k \in DOMAIN s \ {"openai_api_key", "integrations"} :
       DictGet(f.data, k) = s[k]
  /\ "integrations" \in DOMAIN f.data
  /\ \A n \in IntegrationNames :
       /\ n \in DOMAIN f.data["integrations"]
       /\ \A k \in DOMAIN CredDict(s["integrations"][n], TRUE)
                     \ {SENSITIVE_FIELDS[n][1]} :
            /\ k \in DOMAIN f.data["integrations"][n]
            /\ f.data["integrations"][n][k] = s["integrations"][n][k]

\* C9: when a keyring write raises during save, the file is written all the
\* same with the non-sensitive fields of the settings being saved.
C9_FileStillWritten ==
  (last.op \in {"save", "update"} /\ last.fired \in SetFaults) =>
    NonSensitiveWritten(file, Cur)

\* C10: when save fails, on a keyring write or on the file write, the
\* settings file has the content it had before.
C10_AtomicFile ==
  [][(last'.status = "raised" /\ last'.fired \in SetFaults \cup {"open", "dump"})
       => file' = file]_vars

\* Has the change of this thread's update_settings call been made in s?
HasChange(s, t) ==
  /\ s # EmptyDict
  /\ UpdatedSettings(s, threads[t].kwargs).settings = s

\* C11: when the two concurrent update_settings calls, on different
\* top-level keys, have both returned, the in-memory settings and the
\* settings file contain both changes, and the file is the whole document
\* of one save.
C11_NoLostUpdates ==
  (\A t \in Threads : threads[t].pc = "done") =>
    /\ \A t \in Threads : HasChange(settings["s1"], t)
    /\ \E t \in Threads : file = JsonFile(threads[t].file_settings)
    /\ file = SaveSettings(settings["s1"], file, keyring, NONE).file

\* C12: a construction with no settings file, no stored secret, only
\* OPENAI_API_KEY = E set in the environment and nothing failing loads and
\* then saves: in memory openai_api_key = E, log_level = "INFO" and the three
\* integrations are there with enabled = false; the keyring holds
\* openai_api_key = E; the file exists with openai_api_key = "".
C12_FirstRun ==
  [][(/\ last'.op = "construct"
      /\ last'.fired = NONE
      /\ file.state = "absent"
      /\ keyring = NoSecrets
      /\ Truthy(env["OPENAI_API_KEY"])
      /\ env["DETECTIQ_LOG_LEVEL"] = NONE)
     => LET m == last'.store
            E == env["OPENAI_API_KEY"]
        IN /\ last'.status = "ok"
           /\ last'.saved
           /\ m \in built'
           /\ settings'[m]["openai_api_key"] = E
           /\ settings'[m]["log_level"] = "INFO"
           /\ \A n \in IntegrationNames :
                /\ n \in DOMAIN settings'[m]["integrations"]
                /\ settings'[m]["integrations"][n]["enabled"] = FALSE
           /\ keyring'["openai_api_key"] = E
           /\ file'.state = "json"
           /\ file'.data["openai_api_key"] = ""]_vars

C12_Witness ==
  /\ last.op = "construct"
  /\ last.status = "ok"
  /\ last.saved
  /\ steps = 1
  /\ env["DETECTIQ_LOG_LEVEL"] = NONE
  /\ Truthy(env["OPENAI_API_KEY"])
  /\ keyring = [NoSecrets EXCEPT !["openai_api_key"] = env["OPENAI_API_KEY"]]
  /\ Cur["openai_api_key"] = env["OPENAI_API_KEY"]
  /\ file.state = "json"
  /\ file.data["openai_api_key"] = ""

\* C13: in every state, rule_directories and vector_store_directories of
\* the settings of every constructed store each have the keys sigma, yara
\* and snort.
C13_DirKeysPresent ==
  \A m \in built :
    /\ DirKeys \subseteq DOMAIN settings[m]["rule_directories"]
    /\ DirKeys \subseteq DOMAIN settings[m]["vector_store_directories"]

\* C14: save_settings leaves the in-memory settings as they were, every
\* non-empty sensitive field included: a save_settings call changes no
\* store's settings, the save at the end of update_settings leaves the
\* settings update_settings assigned, and the save of a first construction
\* leaves the settings that were loaded.
C14_SaveKeepsMemory ==
  [][LET m == last'.store
     IN /\ last'.op = "save" => settings' = settings
        /\ (last'.op = "update" /\ last'.status # "invalid") =>
             settings'[m] = UpdatedSettings(settings[m], last'.kwargs).settings
        /\ (last'.op = "construct" /\ last'.saved) =>
             settings'[m] = LoadSettings(file, keyring, env, NONE).settings]_vars

C14_Witness ==
  /\ last.op = "save"
  /\ last.saved
  /\ Truthy(Cur["openai_api_key"])
  /\ file.state = "json"
  /\ file.data["openai_api_key"] = ""
  /\ \E e \in SensitiveEntries :
       /\ e[1] # "global"
       /\ Truthy(MemValue(Cur, e))
       /\ DocValue(file.data, e) = ""

\* C15: after an update_settings whose integrations argument names an
\* integration, the record of that integration has the fields given with
\* the values given and every other field at its model default, whatever
\* the record held before.
C15_ReplaceWholesale ==
  [][(/\ last'.op = "update"
      /\ last'.status # "invalid"
      /\ "integrations" \in DOMAIN last'.kwargs)
     => \A n \in DOMAIN last'.kwargs["integrations"] :
          LET given == last'.kwargs["integrations"][n]
              rec == settings'[last'.store]["integrations"][n]
          IN /\ DOMAIN rec = DOMAIN CredDefaults \cup DOMAIN given
             /\ \A f \in DOMAIN rec :
                  rec[f] = IF f \in DOMAIN given THEN given[f]
                           ELSE CredDefaults[f]]_vars

\* Both stores were constructed from the same file, where elastic is
\* enabled; update_settings on one of them, naming elastic without enabled,
\* has left it disabled there.
C15_Witness ==
  /\ steps = 3
  /\ built = Stores
  /\ last.op = "update"
  /\ last.status = "ok"
  /\ "integrations" \in DOMAIN last.kwargs
  /\ "elastic" \in DOMAIN last.kwargs["integrations"]
  /\ "enabled" \notin DOMAIN last.kwargs["integrations"]["elastic"]
  /\ \E m \in Stores \ {last.store} :
       settings[m]["integrations"]["elastic"]["enabled"] = TRUE
  /\ Cur["integrations"]["elastic"]["enabled"] = FALSE

\* C16: get_settings yields one process-wide store: the stores obtained by
\* any two calls have the same current settings, so that an update made
\* through one is seen through the other.
C16_OneStore ==
  \A m1, m2 \in built : settings[m1] = settings[m2]

\* The integrations of the merged map of a load: those of the file when the
\* file is read and has an integrations key, else those of the defaults.
MergedNames(f) ==
  IF f.state = "json" /\ "integrations" \in DOMAIN f.data
  THEN DOMAIN f.data["integrations"] \cap IntegrationNames
  ELSE IntegrationNames

\* C17: a load gives every sensitive field of every integration of the
\* merged map the value the keyring holds for it, when that is non-empty,
\* whatever the file holds, and also when the file is absent or corrupt.
C17_StoredSecretWins ==
  [][Loaded =>
       \A n \in MergedNames(file) :
         LET field == SENSITIVE_FIELDS[n][1]
             stored == keyring[KeyName(n, field)]
         IN Truthy(stored) =>
              settings'[last'.store]["integrations"][n][field] = stored]_vars

\* The default of the setting an environment variable overrides.
EnvDefault ==
  [OPENAI_API_KEY |-> "", DETECTIQ_LOG_LEVEL |-> "INFO",
   DETECTIQ_MODEL |-> "gpt-4"]

\* The setting an environment variable overrides.
EnvField ==
  [OPENAI_API_KEY |-> "openai_api_key", DETECTIQ_LOG_LEVEL |-> "log_level",
   DETECTIQ_MODEL |-> "model"]

\* C18: with no settings file and no stored secret, a load gives
\* openai_api_key, log_level and model the value of OPENAI_API_KEY,
\* DETECTIQ_LOG_LEVEL and DETECTIQ_MODEL when that variable is set and not
\* empty, and the default ("", "INFO", "gpt-4") when it is unset or set to
\* the empty string.
C18_EnvOverrides ==
  [][(Loaded /\ file.state = "absent" /\ keyring = NoSecrets) =>
       \A n \in EnvNames :
         settings'[last'.store][EnvField[n]]
           = IF Truthy(env[n]) THEN env[n] ELSE EnvDefault[n]]_vars

\* The keyring entry of a sensitive entry.
KeyOf(e) == IF e[1] = "global" THEN e[2] ELSE KeyName(e[1], e[2])

\* The settings the save_settings of the step works on: the ones a first
\* construction has loaded, else the ones of the store after the step.
SavedSettings ==
  IF last'.op = "construct" THEN LoadSettings(file, keyring, env, NONE).settings
  ELSE settings'[last'.store]

\* C19: no operation deletes a keyring entry or makes it empty; an entry
\* changes only in a save (save_settings, update_settings, a construction
\* without a file), to the non-empty value of its sensitive field in the
\* settings being saved; a save of settings in which the field is empty or
\* None leaves the entry as it was.
C19_SecretsOnlySet ==
  [][\A e \in SensitiveEntries :
       LET k == KeyOf(e)
       IN /\ Truthy(keyring[k]) => Truthy(keyring'[k])
          /\ keyring'[k] # keyring[k] =>
               /\ last'.op \in {"save", "update", "construct"}
               /\ last'.op = "construct" => file.state = "absent"
               /\ last'.op = "update" => last'.status # "invalid"
               /\ Truthy(keyring'[k])
               /\ keyring'[k] = MemValue(SavedSettings, e)
          /\ ~Truthy(MemValue(SavedSettings, e)) =>
               keyring'[k] = keyring[k]]_vars

\* A save has run on settings with one sensitive field None whose keyring
\* entry holds a secret, and has stored another field's new value.
C19_Witness ==
  /\ last.saved
  /\ keyring \notin InitKeyrings
  /\ \E e \in SensitiveEntries :
       ~Truthy(MemValue(Cur, e)) /\ Truthy(keyring[KeyOf(e)])
  /\ \E e \in SensitiveEntries :
       /\ Truthy(MemValue(Cur, e))
       /\ keyring[KeyOf(e)] = MemValue(Cur, e)
       /\ \A kr \in InitKeyrings : kr[KeyOf(e)] # keyring[KeyOf(e)]

\* What the file of settings s is to hold: s without its None fields, every
\* non-empty sensitive field replaced by "".
Mirror(s) ==
  [k \in DOMAIN s |->
     IF k = "openai_api_key" THEN (IF Truthy(s[k]) THEN "" ELSE s[k])
     ELSE IF k = "integrations"
     THEN [n \in DOMAIN s[k] |->
             [f \in {g \in DOMAIN s[k][n] :
                       g \in BoolFields \/ s[k][n][g] # NONE} |->
                IF f = SENSITIVE_FIELDS[n][1] /\ Truthy(s[k][n][f]) THEN ""
                ELSE s[k][n][f]]]
     ELSE s[k]]

\* C20 as stated: on a single store, after the construction and after every
\* update_settings that returns normally, the settings file is the mirror of
\* the in-memory settings.
C20_Original ==
  (/\ last.op \in {"construct", "update"}
   /\ last.status = "ok"
   /\ built = {last.store})
  => file = JsonFile(Mirror(Cur))

\* C20 (amended): after a construction that found no settings file and after
\* every update_settings and save_settings that returns normally, the
\* settings file is the mirror of the in-memory settings of that store; a
\* construction that finds a file leaves the file as it is.
C20_FileMirrors ==
  last.saved => file = JsonFile(Mirror(Cur))

\* An update_settings has returned; the settings hold a non-empty secret,
\* which the file holds as "", and a None field, which the file omits.
C20_Witness ==
  /\ last.op = "update"
  /\ last.saved
  /\ Truthy(Cur["openai_api_key"])
  /\ Cur["integrations"]["splunk"]["username"] = NONE
  /\ file.state = "json"
  /\ file.data["openai_api_key"] = ""
  /\ "username" \notin DOMAIN file.data["integrations"]["splunk"]
  /\ file.data["model"] = Cur["model"]

====
